---------------------------- MODULE Spec2Model ----------------------------
(***************************************************************************)
(* Model of nestedKriging/src/covariance.h: the correlation kernels, the   *)
(* covariance parameter bundle, the rescaled point set and the covariance  *)
(* assembler.                                                              *)
(*                                                                         *)
(* Arithmetic is exact.  A coordinate or a scaling factor is a number      *)
(* (p + q*sqrt(m))/r of the field Q(sqrt(m)), m being the radicand of the  *)
(* selected kernel's scaling constant (sqrtl(2.0L), sqrtl(3.0L),           *)
(* sqrtl(5.0L); m = 1 for the kernels whose constant is 1.0L).  A double   *)
(* produced by corr or stored in a matrix is the symbolic value            *)
(*      prod * exp(-s) + eps * epsilon_machine + add                       *)
(* with prod, s, add in Q(sqrt(m)) and eps an integer.                     *)
(*                                                                         *)
(* Specifications: Spec (one caller builds a bundle and Points and fills   *)
(* matrices), SpecCaller (the caller keeps writing into its vector),       *)
(* SpecThreads (threads fill their own matrices from shared objects),      *)
(* SpecFailure (set_size may throw), SpecHeap (Points objects copied,      *)
(* moved and destroyed), SpecCtor (the bundle's constructor member by      *)
(* member), and, modelled from the specification because their code lies   *)
(* outside covariance.h, SpecWorkers (pair-level parallelism) and          *)
(* SpecSplitter (subgroup splitter).                                       *)
(***************************************************************************)
EXTENDS Integers, Sequences, FiniteSets, TLC

VARIABLES
  callerParam,  \* the caller's arma::vec handed to the CovarianceParameters constructor
  params,       \* the CovarianceParameters object, NoObject before its construction
  screen,       \* the messages sent to Screen so far
  points,       \* the Points objects of the caller, by name
  built,        \* the arguments each Points object was constructed from
  matrix,       \* the caller's arma::mat handed to the assembler as matrixToFill
  call,         \* the last call made on the Covariance object and its arguments
  sharedNugget, \* the arma::vec the threads hand to fillCorrMatrix as nugget
  threads,      \* each thread's call in progress on the Covariance object and its own arma::mat
  run,          \* one cross-covariance phase: N subgroups, T workers per zone, Z zones, q queries
  nextPair,     \* per zone, the index of the next subgroup pair to hand out
  workers,      \* per zone and worker, what the worker is doing and the pair it holds
  assigned,     \* per zone and pair, how many times the pair was handed to a worker
  writes,       \* per cell (query, i, j) of the K_M tiles, how many times it was written
  clusters,     \* the partition vector handed to the subgroup splitter
  groups,       \* the subgroups the splitter produced, if it has run
  heap,         \* the Points objects alive, by address, each with the address its member d refers to
  outcome,      \* of the last call that could fail: what set_size threw, what reached the caller,
                \* and the number of failures so far
  ctor          \* a CovarianceParameters constructor in progress: its arguments, the members
                \* initialised so far and their values

\* the state of one caller's program on the bundle, its Points and its matrix
assemblerVars == <<callerParam, params, screen, points, built, matrix, call>>
\* the state of the threads that share the bundle, the Points and the nugget
threadVars == <<sharedNugget, threads>>
\* the state of the pair-level parallel phase
workerVars == <<run, nextPair, workers, assigned, writes>>
\* the state of the subgroup splitter
splitterVars == <<clusters, groups>>
\* what the single caller's program never touches
otherVars == <<threadVars, workerVars, splitterVars, heap, outcome, ctor>>
\* what the threads' calls never touch, apart from the shared objects they read
notThreadVars == <<assemblerVars, workerVars, splitterVars, heap, outcome, ctor>>
\* what the parallel phase never touches
notWorkerVars == <<assemblerVars, threadVars, splitterVars, heap, outcome, ctor>>
\* what the splitter never touches
notSplitterVars == <<assemblerVars, threadVars, workerVars, heap, outcome, ctor>>
\* what the copies and moves of Points objects never touch
notHeapVars == <<assemblerVars, threadVars, workerVars, splitterVars, outcome, ctor>>
\* what a call of the assembler never touches, whether it fails or not
notFailureVars == <<threadVars, workerVars, splitterVars, heap, ctor>>
\* what the constructor of the bundle never touches
notCtorVars == <<assemblerVars, threadVars, workerVars, splitterVars, heap, outcome>>

vars == <<assemblerVars, threadVars, workerVars, splitterVars, heap, outcome, ctor>>

\* ------------------------------------------------------------------ bounds
MaxDim == 2
MaxPoints == 3
MaxNuggetLen == 3

\* sample values of the caller's arguments
Lengthscales == {1, 2}
Exponents == {1, 2}
Variances == {2}
CovTypes == {"gauss", "exp", "matern3_2", "matern5_2", "powexp", "white_noise", "Gauss"}
ValidCovTypes == {"gauss", "exp", "matern3_2", "matern5_2", "powexp", "white_noise"}

\* ------------------------------------------------- exact arithmetic helpers
AbsInt(n) == IF n < 0 THEN -n ELSE n

RECURSIVE Gcd(_, _)
Gcd(a, b) == IF b = 0 THEN a ELSE Gcd(b, a % b)

\* (p + q*sqrt(m))/r in lowest terms, r > 0
Num(p, q, r) ==
  LET g == Gcd(Gcd(AbsInt(p), AbsInt(q)), r)
  IN  [p |-> p \div g, q |-> q \div g, r |-> r \div g]

Rat(n, d) == Num(n, 0, d)
Zero == Rat(0, 1)
One == Rat(1, 1)

Add(x, y) == Num(x.p * y.r + y.p * x.r, x.q * y.r + y.q * x.r, x.r * y.r)
Neg(x) == [p |-> -x.p, q |-> -x.q, r |-> x.r]
Sub(x, y) == Add(x, Neg(y))
Mul(m, x, y) == Num(x.p * y.p + m * x.q * y.q, x.p * y.q + x.q * y.p, x.r * y.r)
\* x / n for an integer n > 0
DivInt(x, n) == Num(x.p, x.q, x.r * n)

SignInt(n) == IF n > 0 THEN 1 ELSE IF n < 0 THEN -1 ELSE 0
\* sign of p + q*sqrt(m)
Sign(m, x) ==
  IF x.p >= 0 /\ x.q >= 0 THEN SignInt(x.p + x.q)
  ELSE IF x.p <= 0 /\ x.q <= 0 THEN -1
  ELSE IF x.p > 0 THEN SignInt(x.p * x.p - m * x.q * x.q)
  ELSE SignInt(m * x.q * x.q - x.p * x.p)

\* std::fabs
Fabs(m, x) == IF Sign(m, x) < 0 THEN Neg(x) ELSE x

\* std::pow(x, e) for an integer exponent e >= 0
RECURSIVE Pow(_, _, _)
Pow(m, x, e) == IF e = 0 THEN One ELSE Mul(m, x, Pow(m, x, e - 1))

\* a double: prod * exp(-s) + eps * epsilon_machine + add
Val(prod, s, eps, add) == [prod |-> prod, s |-> s, eps |-> eps, add |-> add]
\* std::exp(-s) scaled by prod
ExpVal(prod, s) == Val(prod, s, 0, Zero)
\* the contents of memory no call has written
Stale == [stale |-> TRUE]

\* x < 0.000000000000001 for x >= 0 rational (10^15 = 100000^3; the nested
\* floor divisions compute floor((r-1)/(p*10^15)))
BelowThreshold(x) ==
  x.q = 0 /\ (x.p = 0 \/
     (x.p > 0 /\ (((((x.r - 1) \div x.p) \div 100000) \div 100000) \div 100000) >= 1))


\* ------------------------------------------------------ CorrelationFunction
\* x1, x2 are rows of a PointsStorage: sequences of d numbers
RECURSIVE SumSeq(_)
SumSeq(terms) ==
  IF terms = << >> THEN Zero ELSE Add(SumSeq(SubSeq(terms, 1, Len(terms) - 1)), terms[Len(terms)])

RECURSIVE ProdSeq(_, _)
ProdSeq(m, terms) ==
  IF terms = << >> THEN One
  ELSE Mul(m, ProdSeq(m, SubSeq(terms, 1, Len(terms) - 1)), terms[Len(terms)])

tinyNuggetOnDiag == 256
tinyNuggetOffDiag == 0

\* the radicand of the field the kernel's scaling constant lives in
Radicand(class) ==
  CASE class = "CorrGauss" -> 2
    [] class = "CorrMatern32" -> 3
    [] class = "CorrMatern52" -> 5
    [] OTHER -> 1

CorrWhiteNoise_corr(d, x1, x2) ==
  LET s == SumSeq([k \in 1..d |-> Fabs(1, Sub(x1[k], x2[k]))])
  IN  IF BelowThreshold(s) THEN ExpVal(One, Zero) ELSE ExpVal(Zero, Zero)

CorrGauss_corr(d, x1, x2) ==
  LET sq == [k \in 1..d |-> LET t == Sub(x1[k], x2[k]) IN Mul(2, t, t)]
      s  == Add(Rat(tinyNuggetOffDiag, 1), SumSeq(sq))
  IN  ExpVal(One, s)

\* variant for C15: the differences are summed without std::fabs
Correxp_corr_NoFabs(d, x1, x2) ==
  LET s == Add(Rat(tinyNuggetOffDiag, 1), SumSeq([k \in 1..d |-> Sub(x1[k], x2[k])]))
  IN  ExpVal(One, s)

Correxp_corr(d, x1, x2) ==
  LET s == Add(Rat(tinyNuggetOffDiag, 1), SumSeq([k \in 1..d |-> Fabs(1, Sub(x1[k], x2[k]))]))
  IN  ExpVal(One, s)

CorrMatern32_corr(d, x1, x2) ==
  LET ecart == [k \in 1..d |-> Fabs(3, Sub(x1[k], x2[k]))]
      s     == Add(Rat(tinyNuggetOffDiag, 1), SumSeq(ecart))
      prod  == ProdSeq(3, [k \in 1..d |-> Add(One, ecart[k])])
  IN  ExpVal(prod, s)

oneOverThree == Rat(1, 3)

CorrMatern52_corr(d, x1, x2) ==
  LET ecart == [k \in 1..d |-> Fabs(5, Sub(x1[k], x2[k]))]
      s     == Add(Rat(tinyNuggetOffDiag, 1), SumSeq(ecart))
      prod  == ProdSeq(5, [k \in 1..d |->
                 Add(Add(One, ecart[k]), Mul(5, Mul(5, ecart[k], ecart[k]), oneOverThree))])
  IN  ExpVal(prod, s)

\* param is the vector the member reference CorrPowerexp::param denotes;
\* the code's param[k], param[k+d] (k from 0) are param[k], param[k+d] (k from 1)
CorrPowerexp_corr(d, param, x1, x2) ==
  LET s == SumSeq([k \in 1..d |->
             Pow(1, DivInt(Fabs(1, Sub(x1[k], x2[k])), param[k]), param[k + d])])
  IN  ExpVal(One, s)

\* variant for C14: the loop of corr counts k from 1 to d
CorrPowerexp_corr_reads_FromOne(d) == UNION {{k, k + d} : k \in 1..d}

\* the indices of param the loop of CorrPowerexp::corr reads: param[k] and
\* param[k+d] for 0 <= k < d
CorrPowerexp_corr_reads(d) == UNION {{k, k + d} : k \in 0..(d - 1)}

\* virtual Double scaling_factor() of each subclass
scaling_factor(class) ==
  CASE class = "CorrWhiteNoise" -> One
    [] class = "CorrGauss" -> Num(0, 1, 2)
    [] class = "Correxp" -> One
    [] class = "CorrMatern32" -> Num(0, 1, 1)
    [] class = "CorrMatern52" -> Num(0, 1, 1)
    [] class = "CorrPowerexp" -> One


\* the object a name holds before its construction
NoObject == [object |-> FALSE]
\* the name that names nothing
NoName == "none"

\* the vector a reference to an arma::vec denotes
Deref(ref) == IF ref = "params.param" THEN params.param ELSE callerParam

\* corrFunction->corr(x1, x2): the virtual call on the object *cf
corr(cf, x1, x2) ==
  CASE cf.class = "CorrWhiteNoise" -> CorrWhiteNoise_corr(cf.d, x1, x2)
    [] cf.class = "CorrGauss" -> CorrGauss_corr(cf.d, x1, x2)
    [] cf.class = "Correxp" -> Correxp_corr(cf.d, x1, x2)
    [] cf.class = "CorrMatern32" -> CorrMatern32_corr(cf.d, x1, x2)
    [] cf.class = "CorrMatern52" -> CorrMatern52_corr(cf.d, x1, x2)
    [] cf.class = "CorrPowerexp" -> CorrPowerexp_corr(cf.d, Deref(cf.param), x1, x2)

\* ----------------------------------------------------- CovarianceParameters
\* the object new Corr...(d) or new CorrPowerexp(d, param) creates; param is
\* the reference the constructor of CorrPowerexp binds
CorrelationFunction(class, d, param) == [class |-> class, d |-> d, param |-> param]

\* variant for C7: the last branch falls back on the gauss kernel
getCorrelationFunction_FallbackGauss(d, covType) ==
  IF covType = "gauss" THEN CorrelationFunction("CorrGauss", d, NoName)
  ELSE IF covType = "exp" THEN CorrelationFunction("Correxp", d, NoName)
  ELSE IF covType = "matern3_2" THEN CorrelationFunction("CorrMatern32", d, NoName)
  ELSE IF covType = "matern5_2" THEN CorrelationFunction("CorrMatern52", d, NoName)
  ELSE IF covType = "powexp" THEN CorrelationFunction("CorrPowerexp", d, "params.param")
  ELSE IF covType = "white_noise" THEN CorrelationFunction("CorrWhiteNoise", d, NoName)
  ELSE CorrelationFunction("CorrGauss", d, NoName)

\* variant for C10: the member param is itself a reference, so the kernel is
\* bound to the caller's vector
getCorrelationFunction_CallerRef(d, covType) ==
  IF covType = "gauss" THEN CorrelationFunction("CorrGauss", d, NoName)
  ELSE IF covType = "exp" THEN CorrelationFunction("Correxp", d, NoName)
  ELSE IF covType = "matern3_2" THEN CorrelationFunction("CorrMatern32", d, NoName)
  ELSE IF covType = "matern5_2" THEN CorrelationFunction("CorrMatern52", d, NoName)
  ELSE IF covType = "powexp" THEN CorrelationFunction("CorrPowerexp", d, "callerParam")
  ELSE IF covType = "white_noise" THEN CorrelationFunction("CorrWhiteNoise", d, NoName)
  ELSE CorrelationFunction("Correxp", d, NoName)

getCorrelationFunction(d, covType) ==
  IF covType = "gauss" THEN CorrelationFunction("CorrGauss", d, NoName)
  ELSE IF covType = "exp" THEN CorrelationFunction("Correxp", d, NoName)
  ELSE IF covType = "matern3_2" THEN CorrelationFunction("CorrMatern32", d, NoName)
  ELSE IF covType = "matern5_2" THEN CorrelationFunction("CorrMatern52", d, NoName)
  ELSE IF covType = "powexp" THEN CorrelationFunction("CorrPowerexp", d, "params.param")
  ELSE IF covType = "white_noise" THEN CorrelationFunction("CorrWhiteNoise", d, NoName)
  ELSE CorrelationFunction("Correxp", d, NoName)

\* what getCorrelationFunction sends to the screen: the warning of its last
\* branch is commented out, so no branch sends anything
getCorrelationFunction_messages(covType) == << >>

\* variant for C5: the factor multiplies by the lengthscale instead of dividing
createScalingFactors_Times(d, param, corrFunction) ==
  LET scalingCorr == scaling_factor(corrFunction.class)
  IN  [k \in 1..d |-> Mul(Radicand(corrFunction.class), scalingCorr, Rat(param[k], 1))]

createScalingFactors(d, param, corrFunction) ==
  LET scalingCorr == scaling_factor(corrFunction.class)
  IN  [k \in 1..d |-> DivInt(scalingCorr, param[k])]

\* the indices of param the loop of createScalingFactors reads: param(k)
\* for 0 <= k < d
createScalingFactors_reads(d) == {k : k \in 0..(d - 1)}

\* 1/(variance+1e-100): the double sum variance + 1e-100 is variance itself
\* for every variance above 1e-84, as the positive integers used here are
inverseVariance(variance) == Rat(1, variance)

\* the member initialisers, in the order of the members' declarations
CovarianceParameters(d, param, variance, covType) ==
  LET corrFunction == getCorrelationFunction(d, covType)
  IN  [d |-> d,
       param |-> param,
       variance |-> variance,
       inverseVariance |-> inverseVariance(variance),
       corrFunction |-> corrFunction,
       scalingFactors |-> createScalingFactors(d, param, corrFunction)]

\* ------------------------------------------------------------------- Points
\* an arma::mat: its shape and its cells, at[<<i, j>>] for 1 <= i <= n_rows,
\* 1 <= j <= n_cols
Mat(n_rows, n_cols, cells) == [n_rows |-> n_rows, n_cols |-> n_cols, at |-> cells]

\* Points::reserve(rows, cols): rows valarrays of cols zeros
reserve(rows, cols) == [_data |-> [i \in 1..rows |-> [k \in 1..cols |-> Zero]], _d |-> cols]

\* variant for C4: the origin is not subtracted
fillWith_NoOrigin(source, covParam, origin) ==
  LET m == Radicand(covParam.corrFunction.class)
  IN  [_data |-> [obs \in 1..source.n_rows |-> [k \in 1..source.n_cols |->
                   Mul(m, Rat(source.at[<<obs, k>>], 1), covParam.scalingFactors[k])]],
       _d |-> source.n_cols]

fillWith(source, covParam, origin) ==
  LET nrows == source.n_rows
      d     == source.n_cols
      m     == Radicand(covParam.corrFunction.class)
      scalingFactors == covParam.scalingFactors
      reserved == reserve(nrows, d)
  IN  [reserved EXCEPT !._data = [obs \in 1..nrows |-> [k \in 1..d |->
         Mul(m, Rat(source.at[<<obs, k>>] - origin[k], 1), scalingFactors[k])]]]

\* arma::zeros<arma::rowvec>(n)
zeros(n) == [k \in 1..n |-> 0]

\* Points(source, covParam, origin) and Points(source, covParam)
Points3(source, covParam, origin) == fillWith(source, covParam, origin)
Points2(source, covParam) == fillWith(source, covParam, zeros(source.n_cols))

size(pts) == Len(pts._data)

\* --------------------------------------------------------------- Covariance
\* constexpr diagonalValue = 1.0 + tinyNuggetOnDiag
diagonalValue == Val(One, Zero, tinyNuggetOnDiag, Zero)

\* the double v + nug * inverseVariance
PlusNugget(v, nug, invVar) == [v EXCEPT !.add = Add(@, Mul(1, Rat(nug, 1), invVar))]

\* variant for C2: the last branch does not wrap around and repeats nugget[0]
fillAllocatedDiagonal_value_NoCycle(i, n, nugget, covParams) ==
  LET nuggetSize == Len(nugget)
  IN  IF nuggetSize = 0 THEN diagonalValue
      ELSE IF nuggetSize = n
        THEN PlusNugget(diagonalValue, nugget[i + 1], covParams.inverseVariance)
      ELSE PlusNugget(diagonalValue, nugget[0 + 1], covParams.inverseVariance)

\* the value the branch taken for (n, nuggetSize) stores at the code's (i, i),
\* i counted from 0
fillAllocatedDiagonal_value(i, n, nugget, covParams) ==
  LET nuggetSize == Len(nugget)
  IN  IF nuggetSize = 0 THEN diagonalValue
      ELSE IF nuggetSize = 1
        THEN PlusNugget(diagonalValue, nugget[0 + 1], covParams.inverseVariance)
      ELSE IF nuggetSize = n
        THEN PlusNugget(diagonalValue, nugget[i + 1], covParams.inverseVariance)
      ELSE PlusNugget(diagonalValue, nugget[(i % nuggetSize) + 1], covParams.inverseVariance)

fillAllocatedDiagonal(matrixToFill, nugget, covParams) ==
  LET n == matrixToFill.n_rows
  IN  [matrixToFill EXCEPT !.at = [ij \in DOMAIN matrixToFill.at |->
         IF ij[1] = ij[2] /\ ij[1] <= n
           THEN fillAllocatedDiagonal_value(ij[1] - 1, n, nugget, covParams)
           ELSE matrixToFill.at[ij]]]

\* variant for C1: only the cells (i,j), j < i, are written
fillAllocatedCorrMatrix_LowerOnly(matrixToFill, pts, nugget, covParams) ==
  LET diag == fillAllocatedDiagonal(matrixToFill, nugget, covParams)
  IN  [diag EXCEPT !.at = [ij \in DOMAIN diag.at |->
         IF ij[1] <= size(pts) /\ ij[2] < ij[1]
           THEN corr(covParams.corrFunction, pts._data[ij[1]], pts._data[ij[2]])
           ELSE diag.at[ij]]]

\* the loops write, for each j < i < points.size(), cells (i,j) and (j,i)
\* with corr(points[i], points[j])
fillAllocatedCorrMatrix(matrixToFill, pts, nugget, covParams) ==
  LET diag == fillAllocatedDiagonal(matrixToFill, nugget, covParams)
      n == size(pts)
      cf == covParams.corrFunction
  IN  [diag EXCEPT !.at = [ij \in DOMAIN diag.at |->
         IF ij[1] <= n /\ ij[2] < ij[1] THEN corr(cf, pts._data[ij[1]], pts._data[ij[2]])
         ELSE IF ij[2] <= n /\ ij[1] < ij[2] THEN corr(cf, pts._data[ij[2]], pts._data[ij[1]])
         ELSE diag.at[ij]]]

fillAllocatedCrossCorrelations(matrixToFill, pointsA, pointsB, covParams) ==
  LET cf == covParams.corrFunction
  IN  [matrixToFill EXCEPT !.at = [ij \in DOMAIN matrixToFill.at |->
         IF ij[1] <= size(pointsA) /\ ij[2] <= size(pointsB)
           THEN corr(cf, pointsA._data[ij[1]], pointsB._data[ij[2]])
           ELSE matrixToFill.at[ij]]]

\* arma::mat::set_size: the shape asked for; no cell is initialised
set_size(n_rows, n_cols) ==
  Mat(n_rows, n_cols, [ij \in (1..n_rows) \X (1..n_cols) |-> Stale])

fillCorrMatrix(pts, nugget, covParams) ==
  fillAllocatedCorrMatrix(set_size(size(pts), size(pts)), pts, nugget, covParams)

\* variant for C3: the diagonal is regularised as in fillCorrMatrix
fillCrossCorrelations_Regularised(pointsA, pointsB, covParams) ==
  fillAllocatedDiagonal(
    fillAllocatedCrossCorrelations(set_size(size(pointsA), size(pointsB)),
                                   pointsA, pointsB, covParams),
    << >>, covParams)

fillCrossCorrelations(pointsA, pointsB, covParams) ==
  fillAllocatedCrossCorrelations(set_size(size(pointsA), size(pointsB)),
                                 pointsA, pointsB, covParams)

\* ----------------------------------------------------- the caller's inputs
Dims == 1..MaxDim

\* the vectors a caller passes as param: d lengthscales, followed for powexp
\* by d exponents
LengthscaleVectors(d) == [1..d -> Lengthscales]
PowexpVectors(d) ==
  {[k \in 1..(2 * d) |-> IF k <= d THEN ls[k] ELSE ex[k - d]] :
     ls \in [1..d -> Lengthscales], ex \in [1..d -> Exponents]}
ParamVectors ==
  UNION {LengthscaleVectors(d) \cup PowexpVectors(d) : d \in Dims}

\* the length of param a call with (d, covType) needs
ParamLength(d, covType) == IF covType = "powexp" THEN 2 * d ELSE d

\* the raw design: n rows of d coordinates; the third row repeats the first
DesignCoord(i, k) ==
  LET r == IF i = 3 THEN 1 ELSE i
  IN  (r * r + (r + 1) * k) % 7
DesignMatrix(n, d) == Mat(n, d, [ij \in (1..n) \X (1..d) |-> DesignCoord(ij[1], ij[2])])
RawMatrices(d) == {DesignMatrix(n, d) : n \in 0..MaxPoints}
OriginRow(d) == [k \in 1..d |-> k]

NuggetVectors == {[i \in 1..k |-> i] : k \in 0..MaxNuggetLen}

PointsNames == {"A", "B"}
NoCall == [op |-> "none", a |-> NoName, b |-> NoName, nugget |-> << >>]

\* ------------------------------------------------------------------ actions
\* no thread shares the bundle
ThreadsUnused ==
  /\ sharedNugget = << >>
  /\ threads = << >>

\* no parallel phase is running
WorkersUnused ==
  /\ run = [N |-> 0, T |-> 0, Z |-> 0, q |-> 0]
  /\ nextPair = << >>
  /\ workers = << >>
  /\ assigned = << >>
  /\ writes = << >>

\* the splitter is not used
SplitterUnused ==
  /\ clusters = << >>
  /\ groups = [split |-> FALSE, sub |-> << >>]

\* no Points object is copied or moved
HeapUnused == heap = << >>

NoException == "none"
\* no call has failed
OutcomeUnused == outcome = [thrown |-> NoException, raised |-> NoException, failures |-> 0]

\* no constructor is observed member by member
CtorUnused == ctor = NoObject

Init ==
  /\ callerParam \in ParamVectors
  /\ params = NoObject
  /\ screen = << >>
  /\ points = [s \in PointsNames |-> NoObject]
  /\ built = [s \in PointsNames \cup {"params"} |-> NoObject]
  /\ matrix = set_size(0, 0)
  /\ call = NoCall
  /\ ThreadsUnused
  /\ WorkersUnused
  /\ SplitterUnused
  /\ HeapUnused
  /\ OutcomeUnused
  /\ CtorUnused

\* CovarianceParameters covParams(d, callerParam, variance, covType)
Construct(d, variance, covType) ==
  /\ params = NoObject
  /\ Len(callerParam) = ParamLength(d, covType)
  /\ params' = CovarianceParameters(d, callerParam, variance, covType)
  /\ screen' = screen \o getCorrelationFunction_messages(covType)
  /\ built' = [built EXCEPT !["params"] =
                 [d |-> d, param |-> callerParam, variance |-> variance, covType |-> covType]]
  /\ UNCHANGED <<callerParam, points, matrix, call>>
  /\ UNCHANGED otherVars

\* the caller writes into its own vector
MutateCallerParam(k, v) ==
  /\ k \in 1..Len(callerParam)
  /\ callerParam[k] # v
  /\ callerParam' = [callerParam EXCEPT ![k] = v]
  /\ UNCHANGED <<params, screen, points, built, matrix, call>>
  /\ UNCHANGED otherVars

\* Points name(source, params)
BuildPoints(name, source) ==
  /\ params # NoObject
  /\ points[name] = NoObject
  /\ source.n_cols = params.d
  /\ points' = [points EXCEPT ![name] = Points2(source, params)]
  /\ built' = [built EXCEPT ![name] =
                 [source |-> source, origin |-> zeros(source.n_cols), given |-> FALSE]]
  /\ UNCHANGED <<callerParam, params, screen, matrix, call>>
  /\ UNCHANGED otherVars

\* Points name(source, params, origin)
BuildPointsWithOrigin(name, source, origin) ==
  /\ params # NoObject
  /\ points[name] = NoObject
  /\ source.n_cols = params.d
  /\ points' = [points EXCEPT ![name] = Points3(source, params, origin)]
  /\ built' = [built EXCEPT ![name] = [source |-> source, origin |-> origin, given |-> TRUE]]
  /\ UNCHANGED <<callerParam, params, screen, matrix, call>>
  /\ UNCHANGED otherVars

\* Covariance(params).fillCorrMatrix(matrix, points[name], nugget)
FillCorrMatrix(name, nugget) ==
  /\ params # NoObject
  /\ points[name] # NoObject
  /\ matrix' = fillCorrMatrix(points[name], nugget, params)
  /\ call' = [op |-> "fillCorrMatrix", a |-> name, b |-> NoName, nugget |-> nugget]
  /\ UNCHANGED <<callerParam, params, screen, points, built>>
  /\ UNCHANGED otherVars

\* Covariance(params).fillCrossCorrelations(matrix, points[a], points[b])
FillCrossCorrelations(a, b) ==
  /\ params # NoObject
  /\ points[a] # NoObject
  /\ points[b] # NoObject
  /\ matrix' = fillCrossCorrelations(points[a], points[b], params)
  /\ call' = [op |-> "fillCrossCorrelations", a |-> a, b |-> b, nugget |-> << >>]
  /\ UNCHANGED <<callerParam, params, screen, points, built>>
  /\ UNCHANGED otherVars

DoConstruct == \E d \in Dims, variance \in Variances, covType \in CovTypes :
                 Construct(d, variance, covType)
DoMutateCallerParam == \E k \in 1..(2 * MaxDim), v \in Lengthscales \cup Exponents :
                         MutateCallerParam(k, v)
\* the caller's program: Points A(source, params); Points B(source, params, origin);
DoBuildPoints == \E d \in Dims : \E source \in RawMatrices(d) : BuildPoints("A", source)
DoBuildPointsWithOrigin == \E d \in Dims : \E source \in RawMatrices(d) :
                             BuildPointsWithOrigin("B", source, OriginRow(d))
\* ... fillCorrMatrix(matrix, A, nugget); fillCrossCorrelations(matrix, a, b) with
\* (a, b) one of (A, B), (B, A), (A, A)
DoFillCorrMatrix == \E nugget \in NuggetVectors : FillCorrMatrix("A", nugget)
DoFillCrossCorrelations == \E ab \in {<<"A", "B">>, <<"B", "A">>, <<"A", "A">>} :
                             FillCrossCorrelations(ab[1], ab[2])

Next ==
  \/ DoConstruct
  \/ DoBuildPoints
  \/ DoBuildPointsWithOrigin
  \/ DoFillCorrMatrix
  \/ DoFillCrossCorrelations

Spec == Init /\ [][Next]_vars

\* the life of the parameter bundle beside a caller who keeps writing into the
\* vector the bundle was built from
NextCaller ==
  \/ DoConstruct
  \/ DoMutateCallerParam

SpecCaller == Init /\ [][NextCaller]_vars

\* ------------------------------------------ threads sharing one bundle
MaxThreads == 2
Threads == 1..MaxThreads

\* the cells the loops of fillAllocatedCorrMatrix write for row i, in order:
\* for each j < i, matrixToFill.at(j,i) and then matrixToFill.at(i,j)
fillAllocatedCorrMatrix_row(i) ==
  [k \in 1..(2 * (i - 1)) |-> IF k % 2 = 1 THEN <<(k + 1) \div 2, i>> ELSE <<i, k \div 2>>]

RECURSIVE fillAllocatedCorrMatrix_rows(_)
fillAllocatedCorrMatrix_rows(i) ==
  IF i = 0 THEN << >>
  ELSE fillAllocatedCorrMatrix_rows(i - 1) \o fillAllocatedCorrMatrix_row(i)

\* the writes of fillAllocatedCorrMatrix on n points, in program order: the
\* diagonal (fillAllocatedDiagonal), then the rows
fillAllocatedCorrMatrix_writes(n) ==
  [i \in 1..n |-> <<i, i>>] \o fillAllocatedCorrMatrix_rows(n)

\* the writes of fillAllocatedCrossCorrelations, column after column
fillAllocatedCrossCorrelations_writes(nA, nB) ==
  [k \in 1..(nA * nB) |-> <<((k - 1) % nA) + 1, ((k - 1) \div nA) + 1>>]

\* a thread that is not inside a call; target is the arma::mat it owns
IdleThread(target) ==
  [op |-> "none", a |-> NoName, b |-> NoName, pc |-> "idle", k |-> 0, target |-> target]

\* the cells the call of thread record th writes, in program order
Writes(th) ==
  IF th.op = "fillCorrMatrix" THEN fillAllocatedCorrMatrix_writes(size(points[th.a]))
  ELSE fillAllocatedCrossCorrelations_writes(size(points[th.a]), size(points[th.b]))

\* the value the call of th stores in cell ij, read from the shared bundle,
\* Points and nugget
WriteValue(th, ij) ==
  IF th.op = "fillCorrMatrix"
    THEN IF ij[1] = ij[2]
           THEN fillAllocatedDiagonal_value(ij[1] - 1, th.target.n_rows, sharedNugget, params)
         ELSE IF ij[2] < ij[1]
           THEN corr(params.corrFunction, points[th.a]._data[ij[1]], points[th.a]._data[ij[2]])
         ELSE corr(params.corrFunction, points[th.a]._data[ij[2]], points[th.a]._data[ij[1]])
  ELSE corr(params.corrFunction, points[th.a]._data[ij[1]], points[th.b]._data[ij[2]])

\* thread t enters fillCorrMatrix(target, points[name], sharedNugget)
CallFillCorrMatrix(t, name) ==
  /\ threads[t].pc = "idle"
  /\ threads' = [threads EXCEPT ![t] =
                   [@ EXCEPT !.op = "fillCorrMatrix", !.a = name, !.pc = "set_size"]]
  /\ UNCHANGED <<sharedNugget, notThreadVars>>

\* thread t enters fillCrossCorrelations(target, points[a], points[b])
CallFillCrossCorrelations(t, a, b) ==
  /\ threads[t].pc = "idle"
  /\ threads' = [threads EXCEPT ![t] =
                   [@ EXCEPT !.op = "fillCrossCorrelations", !.a = a, !.b = b, !.pc = "set_size"]]
  /\ UNCHANGED <<sharedNugget, notThreadVars>>

\* matrixToFill.set_size(...) of thread t's call
SetSize(t) ==
  /\ threads[t].pc = "set_size"
  /\ LET th == threads[t]
         cols == IF th.op = "fillCorrMatrix" THEN size(points[th.a]) ELSE size(points[th.b])
     IN  threads' = [threads EXCEPT ![t] =
                       [@ EXCEPT !.target = set_size(size(points[th.a]), cols),
                                 !.pc = "fill", !.k = 0]]
  /\ UNCHANGED <<sharedNugget, notThreadVars>>

\* variant for C11: the diagonal's cycling is done by padding the nugget
\* vector in place to the size of the matrix
Write_PadsNugget(t) ==
  /\ threads[t].pc = "fill"
  /\ threads[t].k < Len(Writes(threads[t]))
  /\ LET th == threads[t]
         ij == Writes(th)[th.k + 1]
     IN  /\ threads' = [threads EXCEPT ![t] =
                          [@ EXCEPT !.target.at[ij] = WriteValue(th, ij), !.k = @ + 1]]
         /\ sharedNugget' =
              IF th.op = "fillCorrMatrix" /\ Len(sharedNugget) > 1
                THEN [i \in 1..th.target.n_rows |-> sharedNugget[((i - 1) % Len(sharedNugget)) + 1]]
                ELSE sharedNugget
  /\ UNCHANGED notThreadVars

\* the next assignment matrixToFill.at(i,j) = ... of thread t's call
Write(t) ==
  /\ threads[t].pc = "fill"
  /\ threads[t].k < Len(Writes(threads[t]))
  /\ LET th == threads[t]
         ij == Writes(th)[th.k + 1]
     IN  threads' = [threads EXCEPT ![t] =
                       [@ EXCEPT !.target.at[ij] = WriteValue(th, ij), !.k = @ + 1]]
  /\ UNCHANGED <<sharedNugget, notThreadVars>>

\* the call of thread t returns; the thread keeps its matrix
Return(t) ==
  /\ threads[t].pc = "fill"
  /\ threads[t].k = Len(Writes(threads[t]))
  /\ threads' = [threads EXCEPT ![t] = IdleThread(@.target)]
  /\ UNCHANGED <<sharedNugget, notThreadVars>>

\* the bundle and the Points built, before any matrix is filled: a gauss
\* bundle over one dimension, A of MaxPoints points, B of MaxPoints - 1 points
\* with an origin
AssemblerBuilt ==
  /\ callerParam \in LengthscaleVectors(1)
  /\ params = CovarianceParameters(1, callerParam, 2, "gauss")
  /\ screen = << >>
  /\ points = [s \in PointsNames |->
                 IF s = "A" THEN Points2(DesignMatrix(MaxPoints, 1), params)
                 ELSE Points3(DesignMatrix(MaxPoints - 1, 1), params, OriginRow(1))]
  /\ built = [s \in PointsNames \cup {"params"} |->
                IF s = "params"
                  THEN [d |-> 1, param |-> callerParam, variance |-> 2, covType |-> "gauss"]
                ELSE IF s = "A"
                  THEN [source |-> DesignMatrix(MaxPoints, 1), origin |-> zeros(1), given |-> FALSE]
                ELSE [source |-> DesignMatrix(MaxPoints - 1, 1), origin |-> OriginRow(1),
                      given |-> TRUE]]
  /\ matrix = set_size(0, 0)
  /\ call = NoCall

\* the shared objects are built before the threads start
InitThreads ==
  /\ AssemblerBuilt
  /\ sharedNugget \in {<< >>, <<1, 2>>}
  /\ threads = [t \in Threads |-> IdleThread(set_size(0, 0))]
  /\ WorkersUnused
  /\ SplitterUnused
  /\ HeapUnused
  /\ OutcomeUnused
  /\ CtorUnused

\* each thread calls fillCorrMatrix on A or fillCrossCorrelations on (A, B),
\* again and again
NextThreads ==
  \/ \E t \in Threads : CallFillCorrMatrix(t, "A")
  \/ \E t \in Threads : CallFillCrossCorrelations(t, "A", "B")
  \/ \E t \in Threads : SetSize(t)
  \/ \E t \in Threads : Write(t)
  \/ \E t \in Threads : Return(t)

SpecThreads == InitThreads /\ [][NextThreads]_vars

\* ---------------------------------------------- pair-level parallelism
\* The driver of the cross-covariance phase is outside covariance.h; the
\* phase is modelled from the specification: Z zones, each a disjoint range of
\* the q queries and run by T workers of its own; in a zone the N(N-1)/2
\* subgroup pairs are handed out one at a time, and the worker holding pair
\* (i, j) writes the entries (i, j) and (j, i) of the tile of each query of
\* its zone.
MaxGroups == 3
MaxWorkers == 2
MaxZones == 2
MaxQueries == 2
\* Z * T, the number of workers active at once
MaxActiveThreads == 4

NumPairs(N) == (N * (N - 1)) \div 2

\* the pair (i, j), i < j, of index p: pairs are numbered column by column
PairOf(p) ==
  CHOOSE ij \in (0..MaxGroups) \X (0..MaxGroups) :
    ij[1] < ij[2] /\ ((ij[2] * (ij[2] - 1)) \div 2) + ij[1] = p

\* variant for C12: the range of a zone includes its upper end
ZoneRange_Inclusive(z, Z, q) ==
  {x \in 0..(q - 1) : (z * q) \div Z <= x /\ x <= ((z + 1) * q) \div Z}

\* the queries of zone z, 0 <= z < Z: the z-th of Z consecutive ranges of 0..q-1
ZoneRange(z, Z, q) ==
  {x \in 0..(q - 1) : (z * q) \div Z <= x /\ x < ((z + 1) * q) \div Z}

\* the cells a worker of zone z writes for the pair of index p
TileCells(z, p) ==
  LET ij == PairOf(p)
  IN  UNION {{<<x, ij[1], ij[2]>>, <<x, ij[2], ij[1]>>} : x \in ZoneRange(z, run.Z, run.q)}

Zones == 0..(run.Z - 1)
Workers == 0..(run.T - 1)

\* worker w of zone z asks for work and is handed the next pair of its zone
Take(z, w) ==
  /\ workers[<<z, w>>].pc = "ready"
  /\ nextPair[z] < NumPairs(run.N)
  /\ workers' = [workers EXCEPT ![<<z, w>>] = [pc |-> "working", pair |-> nextPair[z]]]
  /\ assigned' = [assigned EXCEPT ![<<z, nextPair[z]>>] = @ + 1]
  /\ nextPair' = [nextPair EXCEPT ![z] = @ + 1]
  /\ UNCHANGED <<run, writes, notWorkerVars>>

\* worker w of zone z computes the tile entries of the pair it holds
Process(z, w) ==
  /\ workers[<<z, w>>].pc = "working"
  /\ writes' = [c \in DOMAIN writes |->
                  IF c \in TileCells(z, workers[<<z, w>>].pair) THEN writes[c] + 1 ELSE writes[c]]
  /\ workers' = [workers EXCEPT ![<<z, w>>].pc = "ready"]
  /\ UNCHANGED <<run, nextPair, assigned, notWorkerVars>>

\* worker w of zone z asks for work when no pair is left, and stops
Finish(z, w) ==
  /\ workers[<<z, w>>].pc = "ready"
  /\ nextPair[z] >= NumPairs(run.N)
  /\ workers' = [workers EXCEPT ![<<z, w>>].pc = "done"]
  /\ UNCHANGED <<run, nextPair, assigned, writes, notWorkerVars>>

AssemblerUnused ==
  /\ callerParam = << >>
  /\ params = NoObject
  /\ screen = << >>
  /\ points = [s \in PointsNames |-> NoObject]
  /\ built = [s \in PointsNames \cup {"params"} |-> NoObject]
  /\ matrix = set_size(0, 0)
  /\ call = NoCall

InitWorkers ==
  /\ AssemblerUnused
  /\ ThreadsUnused
  /\ SplitterUnused
  /\ HeapUnused
  /\ OutcomeUnused
  /\ CtorUnused
  /\ run \in {r \in [N : 1..MaxGroups, T : 1..MaxWorkers, Z : 1..MaxZones, q : 1..MaxQueries] :
                r.Z * r.T <= MaxActiveThreads}
  /\ nextPair = [z \in 0..(run.Z - 1) |-> 0]
  /\ workers = [zw \in (0..(run.Z - 1)) \X (0..(run.T - 1)) |-> [pc |-> "ready", pair |-> 0]]
  /\ assigned = [zp \in (0..(run.Z - 1)) \X (0..(NumPairs(run.N) - 1)) |-> 0]
  /\ writes = [c \in (0..(run.q - 1)) \X (0..(run.N - 1)) \X (0..(run.N - 1)) |-> 0]

NextWorkers ==
  \/ \E z \in Zones, w \in Workers : Take(z, w)
  \/ \E z \in Zones, w \in Workers : Process(z, w)
  \/ \E z \in Zones, w \in Workers : Finish(z, w)

SpecWorkers == InitWorkers /\ [][NextWorkers]_vars

\* ------------------------------------------------------ subgroup splitter
\* The splitter is outside covariance.h; it is modelled from the
\* specification: the labels in use are ranked, each design point and its
\* response are appended, in the order of the design, to the subgroup whose
\* index is the rank of the point's label.
Labels == {-2, 0, 1, 3}

\* the design handed to the splitter with a partition of length n: point i
\* has the coordinate i and the response 100 + i
DesignX(n) == [i \in 1..n |-> <<i>>]
ResponseY(n) == [i \in 1..n |-> 100 + i]

LabelsInUse(cl) == {cl[i] : i \in 1..Len(cl)}

\* variant for C13: the labels are shifted to start at 0, not ranked
Reindex_Shift(cl) ==
  [i \in 1..Len(cl) |-> cl[i] - (CHOOSE l \in LabelsInUse(cl) : \A l2 \in LabelsInUse(cl) : l <= l2)]

\* the dense index of each point's label: the number of labels in use below it
Reindex(cl) ==
  [i \in 1..Len(cl) |-> Cardinality({l \in LabelsInUse(cl) : l < cl[i]})]

\* the number of subgroups: one more than the largest dense index
NumGroups(index) ==
  IF index = << >> THEN 0
  ELSE 1 + (CHOOSE g \in {index[i] : i \in 1..Len(index)} :
              \A i \in 1..Len(index) : index[i] <= g)

\* the subgroups after the first i points were appended
RECURSIVE splitUpTo(_, _, _, _)
splitUpTo(index, X, Y, i) ==
  IF i = 0
    THEN [g \in 0..(NumGroups(index) - 1) |-> [points |-> << >>, responses |-> << >>]]
  ELSE [splitUpTo(index, X, Y, i - 1) EXCEPT ![index[i]] =
          [points |-> Append(@.points, X[i]), responses |-> Append(@.responses, Y[i])]]

split(cl, X, Y) == splitUpTo(Reindex(cl), X, Y, Len(cl))

Split ==
  /\ ~groups.split
  /\ groups' = [split |-> TRUE, sub |-> split(clusters, DesignX(Len(clusters)), ResponseY(Len(clusters)))]
  /\ UNCHANGED <<clusters, notSplitterVars>>

InitSplitter ==
  /\ AssemblerUnused
  /\ ThreadsUnused
  /\ WorkersUnused
  /\ HeapUnused
  /\ OutcomeUnused
  /\ CtorUnused
  /\ clusters \in UNION {[1..n -> Labels] : n \in 0..MaxPoints}
  /\ groups = [split |-> FALSE, sub |-> << >>]

NextSplitter == Split

SpecSplitter == InitSplitter /\ [][NextSplitter]_vars

\* --------------------------------------- Points objects copied and moved
MaxObjects == 3
\* the addresses at which a Points object can live
ObjIds == 1..MaxObjects

\* the bundle the Points objects are built with: exp, unit lengthscales
HeapBundle(d) == CovarianceParameters(d, [k \in 1..d |-> 1], 2, "exp")

\* a Points object at an address: its _data and _d, and the address of the
\* object whose _d its reference member d is bound to
PointsObject(storage, d) == [_data |-> storage._data, _d |-> storage._d, d |-> d]

\* Points(): _data{} and _d = 0, d bound to the object's own _d
DefaultConstruct(o) ==
  /\ heap[o] = NoObject
  /\ heap' = [heap EXCEPT ![o] = PointsObject([_data |-> << >>, _d |-> 0], o)]
  /\ UNCHANGED notHeapVars

\* Points(source, covParam): d bound to the object's own _d, then fillWith
SourceConstruct(o, source) ==
  /\ heap[o] = NoObject
  /\ heap' = [heap EXCEPT ![o] = PointsObject(Points2(source, HeapBundle(source.n_cols)), o)]
  /\ UNCHANGED notHeapVars

\* Points(const Points& other) = default: each member is initialised from
\* other's, the reference d from other.d
CopyConstruct(o, other) ==
  /\ heap[o] = NoObject
  /\ heap[other] # NoObject
  /\ heap' = [heap EXCEPT ![o] = PointsObject(heap[other], heap[other].d)]
  /\ UNCHANGED notHeapVars

\* Points(Points&& other) = default: _data is moved out of other, which is
\* left with no row; _d is copied; the reference d is initialised from other.d
MoveConstruct(o, other) ==
  /\ heap[o] = NoObject
  /\ heap[other] # NoObject
  /\ heap' = [heap EXCEPT ![o] = PointsObject(heap[other], heap[other].d),
                          ![other]._data = << >>]
  /\ UNCHANGED notHeapVars

\* o.reserve(rows, cols)
Reserve(o, rows, cols) ==
  /\ heap[o] # NoObject
  /\ heap' = [heap EXCEPT ![o] = PointsObject(reserve(rows, cols), heap[o].d)]
  /\ UNCHANGED notHeapVars

\* the object at o is destroyed
Destroy(o) ==
  /\ heap[o] # NoObject
  /\ heap' = [heap EXCEPT ![o] = NoObject]
  /\ UNCHANGED notHeapVars

\* the values a read of the member d of the object at o can give: the _d of
\* the object d is bound to; any dimension when that object is destroyed (a
\* read through a dangling reference)
Read_d(o) ==
  IF heap[heap[o].d] # NoObject THEN {heap[heap[o].d]._d} ELSE 0..MaxDim

InitHeap ==
  /\ AssemblerUnused
  /\ ThreadsUnused
  /\ WorkersUnused
  /\ SplitterUnused
  /\ OutcomeUnused
  /\ CtorUnused
  /\ heap = [o \in ObjIds |-> NoObject]

NextHeap ==
  \/ \E o \in ObjIds : DefaultConstruct(o)
  \/ \E o \in ObjIds, d \in Dims : SourceConstruct(o, DesignMatrix(2, d))
  \/ \E o \in ObjIds, other \in ObjIds : CopyConstruct(o, other)
  \/ \E o \in ObjIds, other \in ObjIds : MoveConstruct(o, other)
  \/ \E o \in ObjIds, cols \in Dims : Reserve(o, 1, cols)
  \/ \E o \in ObjIds : Destroy(o)

SpecHeap == InitHeap /\ [][NextHeap]_vars

\* ------------------------------------------------ failures of the assembler
\* the number of failed calls a run goes through
MaxErrors == 2

\* what matrixToFill.set_size does: it succeeds, or throws one of the
\* exceptions armadillo throws on a failed allocation or a size too large.
\* The fillAllocated... functions are noexcept and hold no operation that
\* throws.
SetSizeOutcomes == {NoException, "std::bad_alloc", "std::logic_error"}

\* Screen::error(message, e)
Screen_error(scr, message, e) ==
  Append(scr, [level |-> "error", message |-> message, what |-> e])

\* variant for C17: the handler reports the error and returns
catchBlock_Swallows(scr, message, e) ==
  [screen |-> Screen_error(scr, message, e), raised |-> NoException]

\* catch(const std::exception &e) { Screen::error(message, e); throw; }
catchBlock(scr, message, e) ==
  [screen |-> Screen_error(scr, message, e), raised |-> e]

\* fillCorrMatrix(matrix, points[name], nug), set_size throwing thrown
TryFillCorrMatrix(name, nug, thrown) ==
  /\ params # NoObject
  /\ points[name] # NoObject
  /\ thrown # NoException => outcome.failures < MaxErrors
  /\ call' = [op |-> "fillCorrMatrix", a |-> name, b |-> NoName, nugget |-> nug]
  /\ IF thrown = NoException
       THEN /\ matrix' = fillCorrMatrix(points[name], nug, params)
            /\ screen' = screen
            /\ outcome' = [outcome EXCEPT !.thrown = NoException, !.raised = NoException]
       ELSE LET handled == catchBlock(screen, "error in fillCorrMatrix", thrown)
            IN  /\ matrix' \in {matrix, set_size(0, 0)}
                /\ screen' = handled.screen
                /\ outcome' = [thrown |-> thrown, raised |-> handled.raised,
                               failures |-> outcome.failures + 1]
  /\ UNCHANGED <<callerParam, params, points, built, notFailureVars>>

\* fillCrossCorrelations(matrix, points[a], points[b]), set_size throwing thrown
TryFillCrossCorrelations(a, b, thrown) ==
  /\ params # NoObject
  /\ points[a] # NoObject
  /\ points[b] # NoObject
  /\ thrown # NoException => outcome.failures < MaxErrors
  /\ call' = [op |-> "fillCrossCorrelations", a |-> a, b |-> b, nugget |-> << >>]
  /\ IF thrown = NoException
       THEN /\ matrix' = fillCrossCorrelations(points[a], points[b], params)
            /\ screen' = screen
            /\ outcome' = [outcome EXCEPT !.thrown = NoException, !.raised = NoException]
       ELSE LET handled == catchBlock(screen, "error in fillCrossCorrelations", thrown)
            IN  /\ matrix' \in {matrix, set_size(0, 0)}
                /\ screen' = handled.screen
                /\ outcome' = [thrown |-> thrown, raised |-> handled.raised,
                               failures |-> outcome.failures + 1]
  /\ UNCHANGED <<callerParam, params, points, built, notFailureVars>>

InitFailure ==
  /\ AssemblerBuilt
  /\ ThreadsUnused
  /\ WorkersUnused
  /\ SplitterUnused
  /\ HeapUnused
  /\ OutcomeUnused
  /\ CtorUnused

NextFailure ==
  \/ \E nug \in {<< >>, <<1, 2>>}, thrown \in SetSizeOutcomes :
       TryFillCorrMatrix("A", nug, thrown)
  \/ \E thrown \in SetSizeOutcomes : TryFillCrossCorrelations("A", "B", thrown)

SpecFailure == InitFailure /\ [][NextFailure]_vars

\* ------------------------------- the constructor of the bundle, stepwise
\* variant for C18: scalingFactors is declared before corrFunction
MemberOrder_FactorsFirst ==
  <<"d", "param", "variance", "inverseVariance", "scalingFactors", "corrFunction">>

\* the non-static data members of CovarianceParameters in the order of their
\* declarations, which is the order of their initialisation
MemberOrder ==
  <<"d", "param", "variance", "inverseVariance", "corrFunction", "scalingFactors">>

\* the members the initialiser of member m reads or binds: the others are
\* initialised from the constructor's arguments
MemberReads(m, covType) ==
  CASE m = "corrFunction" -> IF covType = "powexp" THEN {"d", "param"} ELSE {"d"}
    [] m = "scalingFactors" -> {"d", "param", "corrFunction"}
    [] OTHER -> {}

\* what a read of member m gives during the construction: its value once it
\* is initialised, any value of its type before
ReadMember(c, m) ==
  IF m \in c.initialised THEN {c.object[m]}
  ELSE CASE m = "d" -> {c.args.d}
         [] m = "param" -> {q \in ParamVectors : Len(q) = Len(c.args.param)}
         [] m = "corrFunction" -> {getCorrelationFunction(c.args.d, t) : t \in ValidCovTypes}

\* the values the initialiser of member m can give
InitialiserValues(c, m) ==
  CASE m = "d" -> {c.args.d}
    [] m = "param" -> {c.args.param}
    [] m = "variance" -> {c.args.variance}
    [] m = "inverseVariance" -> {inverseVariance(c.args.variance)}
    [] m = "corrFunction" -> {getCorrelationFunction(dd, c.args.covType) : dd \in ReadMember(c, "d")}
    [] m = "scalingFactors" ->
         UNION {UNION {{createScalingFactors(dd, pp, cf) : cf \in ReadMember(c, "corrFunction")} :
                         pp \in ReadMember(c, "param")} : dd \in ReadMember(c, "d")}

\* the storage of the object before any member is initialised
RawObject ==
  [d |-> 0, param |-> << >>, variance |-> 0, inverseVariance |-> Zero,
   corrFunction |-> NoObject, scalingFactors |-> << >>]

\* the next member of the object under construction is initialised
InitialiseMember(m) ==
  /\ ctor.step < Len(MemberOrder)
  /\ m = MemberOrder[ctor.step + 1]
  /\ \E v \in InitialiserValues(ctor, m) :
       ctor' = [ctor EXCEPT !.step = @ + 1,
                            !.initialised = @ \cup {m},
                            !.object[m] = v,
                            !.uninitialisedRead =
                               @ \/ ~(MemberReads(m, ctor.args.covType) \subseteq ctor.initialised)]
  /\ UNCHANGED notCtorVars

InitCtor ==
  /\ AssemblerUnused
  /\ ThreadsUnused
  /\ WorkersUnused
  /\ SplitterUnused
  /\ HeapUnused
  /\ OutcomeUnused
  /\ \E d \in Dims, variance \in Variances, covType \in CovTypes :
       \E param \in {q \in ParamVectors : Len(q) = ParamLength(d, covType)} :
         ctor = [args |-> [d |-> d, param |-> param, variance |-> variance, covType |-> covType],
                 step |-> 0, initialised |-> {}, object |-> RawObject,
                 uninitialisedRead |-> FALSE]

NextCtor == \E m \in {MemberOrder[k] : k \in 1..Len(MemberOrder)} : InitialiseMember(m)

SpecCtor == InitCtor /\ [][NextCtor]_vars

\* =================================================================== claims
\* the arguments the bundle was constructed from
Args == built["params"]
\* the cells of an n_rows x n_cols matrix
Cells(n_rows, n_cols) == (1..n_rows) \X (1..n_cols)

\* C1: after fillCorrMatrix(M, P, nugget) on a point set of size n, whatever M
\* held before, M is n x n, no cell is left unwritten, M[i][j] = M[j][i] for
\* all i, j, and every off-diagonal M[i][j] is corr(P[i], P[j]) of the bundle's
\* kernel.
C1_CorrMatrixFilled ==
  call.op = "fillCorrMatrix" =>
    LET P == points[call.a]
        n == size(P)
    IN  /\ matrix.n_rows = n
        /\ matrix.n_cols = n
        /\ DOMAIN matrix.at = Cells(n, n)
        /\ \A i \in 1..n, j \in 1..n :
             /\ matrix.at[<<i, j>>] # Stale
             /\ matrix.at[<<i, j>>] = matrix.at[<<j, i>>]
             /\ i # j => matrix.at[<<i, j>>] = corr(params.corrFunction, P._data[i], P._data[j])

\* a correlation matrix of three points or more whose kernel value between the
\* first two points is not 1
C1_Witness ==
  /\ call.op = "fillCorrMatrix"
  /\ matrix.n_rows >= 3
  /\ matrix.at[<<1, 2>>] # ExpVal(One, Zero)
  /\ matrix.at[<<1, 2>>] = matrix.at[<<2, 1>>]

\* C2: after fillCorrMatrix on n points with a nugget vector of length k, the
\* diagonal entry i (0 <= i < n) is 1 + 256*epsilon + nugget[i mod k]/variance
\* when k >= 1 and 1 + 256*epsilon when k = 0.
C2_Diagonal ==
  call.op = "fillCorrMatrix" =>
    LET k == Len(call.nugget)
    IN  \A i \in 0..(matrix.n_rows - 1) :
          matrix.at[<<i + 1, i + 1>>] =
            IF k = 0 THEN Val(One, Zero, 256, Zero)
            ELSE Val(One, Zero, 256, Rat(call.nugget[(i % k) + 1], Args.variance))

\* the nugget is shorter than the diagonal and longer than 1: the pattern
\* wraps around
C2_Witness ==
  /\ call.op = "fillCorrMatrix"
  /\ Len(call.nugget) = 2
  /\ matrix.n_rows = 3
  /\ matrix.at[<<3, 3>>].add = Rat(1, Args.variance)

\* C3: after fillCrossCorrelations(M, A, B), whatever M held before, M is
\* |A| x |B| and every M[i][j] is corr(A[i], B[j]) with nothing added: no
\* 256*epsilon and no nugget, on the diagonal too when A and B are the same
\* point set.
C3_CrossCorrelationsFilled ==
  call.op = "fillCrossCorrelations" =>
    LET A == points[call.a]
        B == points[call.b]
    IN  /\ matrix.n_rows = size(A)
        /\ matrix.n_cols = size(B)
        /\ DOMAIN matrix.at = Cells(size(A), size(B))
        /\ \A i \in 1..size(A), j \in 1..size(B) :
             /\ matrix.at[<<i, j>>] # Stale
             /\ matrix.at[<<i, j>>] = corr(params.corrFunction, A._data[i], B._data[j])
             /\ matrix.at[<<i, j>>].eps = 0
             /\ matrix.at[<<i, j>>].add = Zero

\* the cross-correlations of a set of two points or more with itself
C3_Witness ==
  /\ call.op = "fillCrossCorrelations"
  /\ call.a = call.b
  /\ matrix.n_rows >= 2
  /\ matrix.at[<<2, 2>>] = ExpVal(One, Zero)

\* C4: a Points object built from a raw n x d matrix has size n, dimension d,
\* rows of d coordinates, and coordinate (i, k) equal to
\* (raw[i][k] - origin[k]) * scalingFactors[k], the origin being the zero row
\* when none is given.
C4_Rescaled ==
  \A name \in PointsNames : built[name] # NoObject =>
    LET raw == built[name].source
        P == points[name]
        m == Radicand(params.corrFunction.class)
    IN  /\ size(P) = raw.n_rows
        /\ P._d = raw.n_cols
        /\ \A i \in 1..raw.n_rows :
             /\ Len(P._data[i]) = raw.n_cols
             /\ \A k \in 1..raw.n_cols :
                  LET origin == IF built[name].given THEN built[name].origin[k] ELSE 0
                  IN  P._data[i][k] =
                        Mul(m, Rat(raw.at[<<i, k>>] - origin, 1), params.scalingFactors[k])

\* both constructors have run on two rows or more, and the origin moved a
\* coordinate of B
C4_Witness ==
  /\ built["A"] # NoObject
  /\ built["B"] # NoObject
  /\ size(points["A"]) >= 2
  /\ size(points["B"]) >= 2
  /\ points["A"]._data[2] # points["B"]._data[2]

\* the square of the scaling constant of the kernel a tag selects
C5_ConstantSquared(covType) ==
  CASE covType = "gauss" -> Rat(1, 2)
    [] covType = "matern3_2" -> Rat(3, 1)
    [] covType = "matern5_2" -> Rat(5, 1)
    [] OTHER -> One

\* C5: after construction scalingFactors has d entries and
\* scalingFactors[k] = c / lengthscale[k] with c the constant of the selected
\* kernel: c > 0 and c*c is 1 for exp and white_noise (and powexp, and exp
\* selected by fallback), 1/2 for gauss, 3 for matern3_2, 5 for matern5_2.
C5_ScalingFactors ==
  params # NoObject =>
    /\ Len(params.scalingFactors) = Args.d
    /\ \A k \in 1..Args.d :
         LET m == Radicand(params.corrFunction.class)
             c == Mul(m, params.scalingFactors[k], Rat(Args.param[k], 1))
         IN  /\ Sign(m, c) > 0
             /\ Mul(m, c, c) = C5_ConstantSquared(Args.covType)

\* a gauss bundle over two dimensions with different lengthscales
C5_Witness ==
  /\ params # NoObject
  /\ Args.covType = "gauss"
  /\ Args.d = 2
  /\ Args.param = <<1, 2>>
  /\ params.scalingFactors = <<Num(0, 1, 2), Num(0, 1, 4)>>

\* the coordinates of point i of a Points object before rescaling: raw - origin
Unscaled(name, i) ==
  [k \in 1..built[name].source.n_cols |->
     built[name].source.at[<<i, k>>] - built[name].origin[k]]

\* the two points whose correlation the matrix holds at (i, j), before rescaling
CellPoints(i, j) ==
  IF call.op = "fillCorrMatrix" THEN <<Unscaled(call.a, i), Unscaled(call.a, j)>>
  ELSE <<Unscaled(call.a, i), Unscaled(call.b, j)>>

\* the cells of the matrix that hold a correlation: all of them after
\* fillCrossCorrelations, the off-diagonal ones after fillCorrMatrix
CorrelationCells ==
  {ij \in DOMAIN matrix.at : call.op = "fillCorrMatrix" => ij[1] # ij[2]}

\* exp(-sum_k (|x1[k] - x2[k]| / lengthscale[k])^p[k]) on raw coordinates
PowexpOnRaw(d, param, x1, x2) ==
  ExpVal(One, SumSeq([k \in 1..d |->
                       Pow(1, Rat(AbsInt(x1[k] - x2[k]), param[k]), param[k + d])]))

\* C6 (as claimed): for powexp the correlation of two design points, on the
\* path from the construction of the Points to corr, is
\* exp(-sum_k (|x1[k] - x2[k]| / lengthscale[k])^p[k]) on their raw
\* coordinates: each lengthscale is applied once, the Points not having been
\* divided by it in advance.
C6_PowexpLengthscaleOnce ==
  (call.op # "none" /\ Args.covType = "powexp") =>
    \A ij \in CorrelationCells :
      matrix.at[ij] = PowexpOnRaw(Args.d, Args.param,
                                  CellPoints(ij[1], ij[2])[1], CellPoints(ij[1], ij[2])[2])

\* the parameter bundle the same arguments give with the tag "exp"
AsExp == CovarianceParameters(Args.d, Args.param, Args.variance, "exp")
\* the Points object the arguments of points[name] give with bundle covParam
Rebuilt(name, covParam) ==
  IF built[name].given THEN Points3(built[name].source, covParam, built[name].origin)
  ELSE Points2(built[name].source, covParam)

\* C7: with a tag that is none of the six, the bundle holds the exp kernel,
\* and its scaling factors, the Points built from it and every correlation
\* matrix and cross-correlation matrix filled from it are those the tag "exp"
\* gives on the same inputs.
C7_FallbackIsExp ==
  (params # NoObject /\ Args.covType \notin ValidCovTypes) =>
    /\ params.corrFunction = AsExp.corrFunction
    /\ params.scalingFactors = AsExp.scalingFactors
    /\ \A name \in PointsNames : built[name] # NoObject => points[name] = Rebuilt(name, AsExp)
    /\ call.op = "fillCorrMatrix" =>
         matrix = fillCorrMatrix(Rebuilt(call.a, AsExp), call.nugget, AsExp)
    /\ call.op = "fillCrossCorrelations" =>
         matrix = fillCrossCorrelations(Rebuilt(call.a, AsExp), Rebuilt(call.b, AsExp), AsExp)

\* an unknown tag, lengthscales other than 1, and a cross-correlation matrix
\* of 2 x 2 or more filled from it
C7_Witness ==
  /\ params # NoObject
  /\ Args.covType \notin ValidCovTypes
  /\ Args.param = <<1, 2>>
  /\ call.op = "fillCrossCorrelations"
  /\ call.a # call.b
  /\ matrix.n_rows >= 2
  /\ matrix.n_cols >= 2

\* C8 (as claimed): a bundle built with an unknown tag has sent a warning to
\* the screen, and a bundle built with one of the six tags has sent none.
C8_WarningIffUnknownTag ==
  params # NoObject => (Args.covType \notin ValidCovTypes <=> screen # << >>)

\* the reference correlation of two points, from their coordinates before
\* rescaling and the lengthscales (the table of kernels of the specification)
Reference_corr(covType, d, param, x1, x2) ==
  LET h == [k \in 1..d |-> Rat(AbsInt(x1[k] - x2[k]), param[k])]
      r3 == [k \in 1..d |-> Mul(3, Num(0, 1, 1), h[k])]
      r5 == [k \in 1..d |-> Mul(5, Num(0, 1, 1), h[k])]
  IN  CASE covType = "exp" -> ExpVal(One, SumSeq(h))
        [] covType = "gauss" ->
             ExpVal(One, SumSeq([k \in 1..d |-> Mul(1, Mul(1, h[k], h[k]), Rat(1, 2))]))
        [] covType = "matern3_2" ->
             ExpVal(ProdSeq(3, [k \in 1..d |-> Add(One, r3[k])]), SumSeq(r3))
        [] covType = "matern5_2" ->
             ExpVal(ProdSeq(5, [k \in 1..d |->
                      Add(Add(One, r5[k]), Mul(1, Mul(1, h[k], h[k]), Rat(5, 3)))]),
                    SumSeq(r5))
        [] covType = "powexp" -> PowexpOnRaw(d, param, x1, x2)
        [] covType = "white_noise" ->
             IF BelowThreshold(SumSeq(h)) THEN ExpVal(One, Zero) ELSE ExpVal(Zero, Zero)

\* C9 (as claimed): for each of the six kernels every correlation obtained
\* from rescaled Points equals the reference correlation of the same two
\* points computed from their coordinates before rescaling and the
\* lengthscales.
C9_RescaledEqualsReference ==
  (call.op # "none" /\ Args.covType \in ValidCovTypes) =>
    \A ij \in CorrelationCells :
      matrix.at[ij] = Reference_corr(Args.covType, Args.d, Args.param,
                                     CellPoints(ij[1], ij[2])[1], CellPoints(ij[1], ij[2])[2])

\* two rescaled points of the bundle's dimension
Probe == Points2(DesignMatrix(2, params.d), params)._data

\* C10: whatever the caller writes into its vector after the construction,
\* the bundle's param is the vector it was constructed from, its scaling
\* factors are those of that vector, and the vector the powexp kernel reads
\* (lengthscales and exponents), hence its correlations, are those of that
\* vector.
C10_BundleOwnsItsParam ==
  params # NoObject =>
    /\ params.param = Args.param
    /\ params.scalingFactors = createScalingFactors(Args.d, Args.param, params.corrFunction)
    /\ params.corrFunction.class = "CorrPowerexp" =>
         /\ Deref(params.corrFunction.param) = Args.param
         /\ corr(params.corrFunction, Probe[1], Probe[2]) =
              CorrPowerexp_corr(Args.d, Args.param, Probe[1], Probe[2])

\* a powexp bundle whose caller has since changed a lengthscale and an exponent
C10_Witness ==
  /\ params # NoObject
  /\ Args.covType = "powexp"
  /\ callerParam[1] # Args.param[1]
  /\ callerParam[Len(callerParam)] # Args.param[Len(callerParam)]

\* C11: after construction, no step of any thread's fillCorrMatrix or
\* fillCrossCorrelations call, however the threads' calls interleave, changes
\* the parameter bundle, a point set or the nugget vector, and a step that
\* writes into a thread's matrix leaves every other thread's matrix as it was.
C11_SharedReadOnly ==
  [][/\ params' = params
     /\ points' = points
     /\ sharedNugget' = sharedNugget
     /\ callerParam' = callerParam
     /\ \A t \in Threads : threads'[t].target # threads[t].target =>
          \A u \in Threads \ {t} : threads'[u] = threads[u]]_vars

\* two threads are inside different calls at once, the first having written
\* cross-correlations into its matrix and the second having gone past the
\* diagonal of its own
C11_Witness ==
  /\ threads[1].pc = "fill"
  /\ threads[1].op = "fillCrossCorrelations"
  /\ threads[1].k >= 1
  /\ threads[2].pc = "fill"
  /\ threads[2].op = "fillCorrMatrix"
  /\ threads[2].k > threads[2].target.n_rows
  /\ threads[1].target.n_cols # threads[2].target.n_cols


\* every worker of every zone has stopped
AllDone == \A zw \in DOMAIN workers : workers[zw].pc = "done"

PlacesOf(i) ==
  {gk \in UNION {{<<g, k>> : k \in 1..Len(groups.sub[g].points)} : g \in DOMAIN groups.sub} :
     groups.sub[gk[1]].points[gk[2]] = DesignX(Len(clusters))[i]}

RECURSIVE SumSizes(_)
SumSizes(N) == IF N = 0 THEN 0 ELSE SumSizes(N - 1) + Len(groups.sub[N - 1].points)

\* C13: the splitter, on a partition vector of length n over arbitrary
\* integer labels, produces subgroups indexed 0..N-1 with N the number of
\* distinct labels present; none is empty; their sizes sum to n; each design
\* point is stored at exactly one place, with its response at the same place;
\* two points share a subgroup exactly when they share a label; and within a
\* subgroup the points follow their original order.
C13_Splitter ==
  groups.split =>
    LET n == Len(clusters)
        N == Cardinality(LabelsInUse(clusters))
        G == groups.sub
    IN  /\ DOMAIN G = 0..(N - 1)
        /\ \A g \in DOMAIN G : Len(G[g].points) >= 1 /\ Len(G[g].responses) = Len(G[g].points)
        /\ SumSizes(N) = n
        /\ \A i \in 1..n :
             /\ Cardinality(PlacesOf(i)) = 1
             /\ \A gk \in PlacesOf(i) : G[gk[1]].responses[gk[2]] = ResponseY(n)[i]
        /\ \A i, j \in 1..n :
             (clusters[i] = clusters[j]) <=>
               (\E gi \in PlacesOf(i), gj \in PlacesOf(j) : gi[1] = gj[1])
        /\ \A g \in DOMAIN G : \A k \in 1..(Len(G[g].points) - 1) :
             G[g].points[k][1] < G[g].points[k + 1][1]

\* labels starting at 0 with values skipped, the points of one label
\* interleaved with another's
C13_Witness ==
  /\ groups.split
  /\ clusters = <<3, 0, 3>>
  /\ groups.sub[0].points = <<(<<2>>)>>
  /\ groups.sub[1].points = << <<1>>, <<3>> >>
  /\ groups.sub[1].responses = <<101, 103>>

C15_SymmetricUnitDiagonal ==
  call.op = "fillCrossCorrelations" =>
    LET A == points[call.a]
        B == points[call.b]
        cf == params.corrFunction
    IN  /\ \A i \in 1..size(A), j \in 1..size(B) :
             corr(cf, A._data[i], B._data[j]) = corr(cf, B._data[j], A._data[i])
        /\ \A i \in 1..size(A) : corr(cf, A._data[i], A._data[i]) = ExpVal(One, Zero)
        /\ \A j \in 1..size(B) : corr(cf, B._data[j], B._data[j]) = ExpVal(One, Zero)
        /\ call.a = call.b =>
             /\ \A i, j \in 1..size(A) : matrix.at[<<i, j>>] = matrix.at[<<j, i>>]
             /\ \A i \in 1..size(A) : matrix.at[<<i, i>>] = ExpVal(One, Zero)
             /\ \A nug \in NuggetVectors :
                  LET C == fillCorrMatrix(A, nug, params)
                  IN  \A i, j \in 1..size(A) :
                        (i # j) <=> (C.at[<<i, j>>] = matrix.at[<<i, j>>])

\* the cross-correlations of three points with themselves under matern5_2,
\* two of the points being at a distance
C15_Witness ==
  /\ call.op = "fillCrossCorrelations"
  /\ call.a = call.b
  /\ Args.covType = "matern5_2"
  /\ matrix.n_rows = 3
  /\ matrix.at[<<1, 2>>] # ExpVal(One, Zero)
  /\ matrix.at[<<1, 2>>] = matrix.at[<<2, 1>>]
  /\ matrix.at[<<2, 2>>] = ExpVal(One, Zero)

\* C16 (as claimed): for every Points object alive, copies and moved-to
\* objects included, and whatever has been done to the object it was copied
\* or moved from, a read of its member d gives its own dimension: its own _d,
\* which is the number of coordinates of each of its own rows.
C16_PointsDimension ==
  \A o \in ObjIds : heap[o] # NoObject =>
    \A v \in Read_d(o) :
      /\ v = heap[o]._d
      /\ \A i \in 1..Len(heap[o]._data) : Len(heap[o]._data[i]) = v

C18_ConstructionOrder ==
  /\ ~ctor.uninitialisedRead
  /\ "corrFunction" \in ctor.initialised => {"d", "param"} \subseteq ctor.initialised
  /\ "scalingFactors" \in ctor.initialised => "corrFunction" \in ctor.initialised
  /\ ctor.step = Len(MemberOrder) =>
       /\ ctor.object = CovarianceParameters(ctor.args.d, ctor.args.param,
                                             ctor.args.variance, ctor.args.covType)
       /\ ctor.object.scalingFactors =
            createScalingFactors(ctor.object.d, ctor.object.param, ctor.object.corrFunction)

\* a matern5_2 bundle over two dimensions, fully constructed
C18_Witness ==
  /\ ctor.step = Len(MemberOrder)
  /\ ctor.args.covType = "matern5_2"
  /\ ctor.args.param = <<1, 2>>
  /\ ctor.object.corrFunction.class = "CorrMatern52"
  /\ ctor.object.scalingFactors = <<Num(0, 1, 1), Num(0, 1, 2)>>

=============================================================================
